---- MODULE Spec2Model ----
(***************************************************************************)
(* Project Nova: the feature alignment and scoring pipeline served by the  *)
(* Flask endpoint /predict (src/src/api.py) and by the Streamlit dashboard *)
(* (src/app/streamlit_app.py).                                             *)
(*                                                                         *)
(* A one-row pandas DataFrame is a sequence of columns [name, value] in    *)
(* column order.  A numeric cell is an exact fraction [n, d] in lowest     *)
(* terms; d = 0 encodes the IEEE results of a division by zero (n = 1 is   *)
(* inf, n = -1 is -inf, n = 0 is NaN).  A text cell is [cat |-> s].        *)
(***************************************************************************)
EXTENDS Integers, Sequences, FiniteSets, TLC

VARIABLES model, via, data, input_df, input_processed, repayment_prob, response, first

vars == <<model, via, data, input_df, input_processed, repayment_prob, response, first>>

(* ---------------------------------------------------------------------- *)
(* Bounds                                                                  *)
(* ---------------------------------------------------------------------- *)

\* the classifier's probability output is one of 0/PDen, 1/PDen, ..., PDen/PDen
PDen == 40

(* ---------------------------------------------------------------------- *)
(* Numeric cells                                                           *)
(* ---------------------------------------------------------------------- *)

Abs(x) == IF x < 0 THEN -x ELSE x

Sign(x) == IF x > 0 THEN 1 ELSE IF x < 0 THEN -1 ELSE 0

RECURSIVE Gcd(_, _)
Gcd(a, b) == IF b = 0 THEN a ELSE Gcd(b, a % b)

\* the fraction n/d; d = 0 gives inf, -inf or NaN as float division does
Rat(n, d) ==
    IF d = 0 THEN [n |-> Sign(n), d |-> 0]
    ELSE LET g == Gcd(Abs(n), Abs(d))
             s == Sign(d)
         IN  [n |-> (s * n) \div g, d |-> (s * d) \div g]

Num(x) == [n |-> x, d |-> 1]

Text(s) == [cat |-> s]

IsNumeric(v) == "n" \in DOMAIN v

IsInf(v) == IsNumeric(v) /\ v.d = 0 /\ v.n # 0

\* Series / Series on the single row: float true division, so a zero divisor
\* gives inf, -inf or NaN and raises nothing (request cells are finite)
TrueDiv(a, b) == Rat(a.n * b.d, a.d * b.n)

\* Series * Series on the single row
Mul(a, b) == Rat(a.n * b.n, a.d * b.d)

\* floor(n / d) for n >= 0, d > 0: what int() does to a non-negative float
Trunc(n, d) == n \div d

\* round(n / d) to the nearest integer, ties to even, for n >= 0, d > 0
RoundHalfEven(n, d) ==
    LET q == n \div d
        r == n % d
    IN  IF 2 * r < d THEN q
        ELSE IF 2 * r > d THEN q + 1
        ELSE IF q % 2 = 0 THEN q ELSE q + 1

(* ---------------------------------------------------------------------- *)
(* One-row DataFrames                                                      *)
(* ---------------------------------------------------------------------- *)

Columns(df) == {df[i].name : i \in 1..Len(df)}

Cell(df, c) == (CHOOSE i \in 1..Len(df) : df[i].name = c)

\* df[c] of the single row
Get(df, c) == df[Cell(df, c)].value

\* df[c] = v : replaces the column's value in place, or appends a new column
SetItem(df, c, v) ==
    IF c \in Columns(df)
    THEN [i \in 1..Len(df) |-> IF df[i].name = c THEN [name |-> c, value |-> v] ELSE df[i]]
    ELSE Append(df, [name |-> c, value |-> v])

\* df without column c
Drop(df, c) == SelectSeq(df, LAMBDA col : col.name # c)

\* df[cols] : the named columns, in the order of cols
RECURSIVE Select(_, _)
Select(df, cols) ==
    IF cols = <<>> THEN <<>>
    ELSE <<[name |-> Head(cols), value |-> Get(df, Head(cols))]>> \o Select(df, Tail(cols))

\* the keys a request may carry, in the order the columns are laid out
KeyOrder ==
    <<"partner_id", "tenure_months", "city_district", "avg_customer_rating",
      "safety_score", "avg_weekly_earnings", "avg_weekly_trips", "acceptance_rate",
      "cancellation_rate", "peak_hour_percentage", "grab_pay_usage_rate",
      "earnings_stability_score">>

\* pd.DataFrame(data, index=[0]) : one column per key of the request
RECURSIVE FrameOf(_, _)
FrameOf(d, keys) ==
    IF keys = <<>> THEN <<>>
    ELSE (IF Head(keys) \in DOMAIN d
          THEN <<[name |-> Head(keys), value |-> d[Head(keys)]]>>
          ELSE <<>>) \o FrameOf(d, Tail(keys))

\* one frame shared by all requests: a key the request lacks keeps the value
\* the previous request left in the frame
RECURSIVE SharedFrameOf(_, _)
SharedFrameOf(d, keys) ==
    IF keys = <<>> THEN <<>>
    ELSE (IF Head(keys) \in DOMAIN d
          THEN <<[name |-> Head(keys), value |-> d[Head(keys)]]>>
          ELSE IF Head(keys) \in Columns(input_df)
          THEN <<[name |-> Head(keys), value |-> Get(input_df, Head(keys))]>>
          ELSE <<>>) \o SharedFrameOf(d, Tail(keys))

DataFrameShared(d) == SharedFrameOf(d, KeyOrder)

DataFrame(d) == FrameOf(d, KeyOrder)

(* ---------------------------------------------------------------------- *)
(* The pipeline stages                                                     *)
(* ---------------------------------------------------------------------- *)

Behavioral ==
    {"safety_score", "grab_pay_usage_rate", "peak_hour_percentage",
     "acceptance_rate", "cancellation_rate", "earnings_stability_score"}

\* the completion with the safety score left out
FeatureCompletionPartial(df) ==
    LET d2 == SetItem(df, "grab_pay_usage_rate", Rat(5, 10))
        d3 == SetItem(d2, "peak_hour_percentage", Rat(5, 10))
        d4 == SetItem(d3, "acceptance_rate", Rat(95, 100))
        d5 == SetItem(d4, "cancellation_rate", Rat(5, 100))
    IN  SetItem(d5, "earnings_stability_score", Num(2000))

\* 1. the behavioural features: each assignment sets the column, present or not
FeatureCompletion(df) ==
    LET d1 == SetItem(df, "safety_score", Rat(850, 10))
        d2 == SetItem(d1, "grab_pay_usage_rate", Rat(5, 10))
        d3 == SetItem(d2, "peak_hour_percentage", Rat(5, 10))
        d4 == SetItem(d3, "acceptance_rate", Rat(95, 100))
        d5 == SetItem(d4, "cancellation_rate", Rat(5, 100))
    IN  SetItem(d5, "earnings_stability_score", Num(2000))

\* 2. the derived features
FeatureDerivation(df) ==
    LET d1 == SetItem(df, "earnings_per_trip",
                      TrueDiv(Get(df, "avg_weekly_earnings"), Get(df, "avg_weekly_trips")))
    IN  SetItem(d1, "rating_x_tenure",
                Mul(Get(d1, "avg_customer_rating"), Get(d1, "tenure_months")))

\* lexical order of the district labels
LevelOrder == <<"East", "North", "South", "Unknown", "West">>

DummyName(level) ==
    CASE level = "East" -> "city_district_East"
      [] level = "North" -> "city_district_North"
      [] level = "South" -> "city_district_South"
      [] level = "Unknown" -> "city_district_Unknown"
      [] level = "West" -> "city_district_West"

\* the levels pandas infers for the column: the values that occur in the frame
\* (one row, so one level), sorted
Levels(df) == SelectSeq(LevelOrder, LAMBDA l : l = Get(df, "city_district").cat)

RECURSIVE Indicators(_, _)
Indicators(levels, v) ==
    IF levels = <<>> THEN <<>>
    ELSE <<[name |-> DummyName(Head(levels)),
            value |-> IF v = Head(levels) THEN Num(1) ELSE Num(0)]>>
         \o Indicators(Tail(levels), v)

\* 3. pd.get_dummies(df, columns=['city_district'], drop_first=True) : the
\* column is replaced by one indicator per inferred level but the first
get_dummies(df) ==
    Drop(df, "city_district") \o Indicators(Tail(Levels(df)), Get(df, "city_district").cat)

\* 4. the loop that adds every training column the frame lacks, as 0
RECURSIVE AddMissing(_, _)
AddMissing(df, cols) ==
    IF cols = <<>> THEN df
    ELSE AddMissing(IF Head(cols) \notin Columns(df) THEN SetItem(df, Head(cols), Num(0)) ELSE df,
                    Tail(cols))

\* the loop alone: the columns are left as the frame has them
AlignUnordered(df, training_cols) == AddMissing(df, training_cols)

\* 4. the loop, then input_processed[training_cols]
Align(df, training_cols) == Select(AddMissing(df, training_cols), training_cols)

(* ---------------------------------------------------------------------- *)
(* The model artifact                                                      *)
(* ---------------------------------------------------------------------- *)

\* model = None : baseline_model.pkl was not found when the process started
NoModel == [loaded |-> FALSE]

\* the columns of the simulated data set, the derived features, the indicators
TrainedSchema ==
    <<"tenure_months", "avg_customer_rating", "safety_score", "avg_weekly_trips",
      "grab_pay_usage_rate", "acceptance_rate", "cancellation_rate",
      "peak_hour_percentage", "avg_weekly_earnings", "earnings_stability_score",
      "earnings_per_trip", "rating_x_tenure",
      "city_district_North", "city_district_South", "city_district_West">>

\* a model fit on other frames: another order, the partner id kept, a feature
\* no request carries
PartnerSchema ==
    <<"city_district_West", "partner_id", "rating_x_tenure", "city_district_South",
      "earnings_per_trip", "safety_score", "city_district_North">>

SparseSchema == <<"earnings_per_trip", "loan_history", "city_district_North", "tenure_months">>

Schemas == {TrainedSchema, PartnerSchema, SparseSchema}

\* the artifacts pickle.load may return; inf_ok tells whether the library
\* accepts an infinite cell or raises on it, seed which of PDen + 1 scoring
\* functions was fit (between them they give every vector every probability)
Models ==
    {[loaded |-> TRUE, feature_names |-> s, inf_ok |-> b, seed |-> 0] :
        s \in Schemas, b \in BOOLEAN}
    \cup {[loaded |-> TRUE, feature_names |-> TrainedSchema, inf_ok |-> TRUE, seed |-> k] :
            k \in 1..PDen}

\* model.get_booster().feature_names
FeatureNames(m) == m.feature_names

RECURSIVE Weigh(_, _)
Weigh(X, i) ==
    IF i > Len(X) THEN 0
    ELSE i * (Abs(X[i].value.n) + 7 * X[i].value.d) + Weigh(X, i + 1)

\* whether model.predict_proba(X) raises: a cell that is not a number, or an
\* infinite cell the library refuses
Raises(m, X) ==
    \E i \in 1..Len(X) :
        \/ ~IsNumeric(X[i].value)
        \/ IsInf(X[i].value) /\ ~m.inf_ok

\* model.predict_proba(X)[:, 0][0] : the class-0 probability, as a number of
\* PDen-ths; a fixed function of the model and of the cells of X
predict_proba(m, X) == (m.seed + Weigh(X, 1)) % (PDen + 1)

(* ---------------------------------------------------------------------- *)
(* Scoring                                                                 *)
(* ---------------------------------------------------------------------- *)

\* the score rounded to the nearest integer instead of cut off
NovaScoreRounded(p) == 300 + RoundHalfEven(p * 550, PDen)

\* the top of the range taken for its width
NovaScoreWide(p) == Trunc(300 * PDen + p * 850, PDen)

\* int(300 + repayment_prob[0] * 550), for the probability p / PDen
NovaScore(p) == Trunc(300 * PDen + p * 550, PDen)

\* f"{repayment_prob[0]:.2%}" : the percentage with two decimals, as a number
\* of hundredths of a percent
Percent(p) == RoundHalfEven(p * 10000, PDen)

(* ---------------------------------------------------------------------- *)
(* Requests                                                                *)
(* ---------------------------------------------------------------------- *)

NoData == [k \in {} |-> Num(0)]

Required ==
    {"tenure_months", "city_district", "avg_customer_rating",
     "avg_weekly_earnings", "avg_weekly_trips"}

Minimal(district, earnings, trips) ==
    [tenure_months |-> Num(24), city_district |-> Text(district),
     avg_customer_rating |-> Rat(48, 10), avg_weekly_earnings |-> Num(earnings),
     avg_weekly_trips |-> Num(trips)]

\* the values FeatureCompletion assigns, supplied by the caller
Defaults ==
    [safety_score |-> Rat(850, 10), grab_pay_usage_rate |-> Rat(5, 10),
     peak_hour_percentage |-> Rat(5, 10), acceptance_rate |-> Rat(95, 100),
     cancellation_rate |-> Rat(5, 100), earnings_stability_score |-> Num(2000)]

Measured ==
    [safety_score |-> Rat(700, 10), grab_pay_usage_rate |-> Rat(60, 100),
     peak_hour_percentage |-> Rat(80, 100), acceptance_rate |-> Rat(85, 100),
     cancellation_rate |-> Rat(15, 100), earnings_stability_score |-> Num(50)]

Supplied == {NoData, [safety_score |-> Rat(900, 10)], Defaults, Measured}

Extras == {NoData, [partner_id |-> Num(7)]}

Districts == {"East", "North", "South", "West"}

\* the JSON bodies posted to /predict: every district with every choice of
\* supplied behavioural features; trips of zero; an extra key; a missing key
ApiRequests ==
    {Minimal(c, 15000, 80) @@ b : c \in Districts \cup {"Unknown"}, b \in Supplied}
    \cup {Minimal(c, e, 0) @@ x : c \in {"East", "West"}, e \in {15000, 0}, x \in Extras}
    \cup {Minimal(c, 15000, 80) @@ [partner_id |-> Num(7)] : c \in {"East", "North"}}
    \cup {[tenure_months |-> Num(24), city_district |-> Text("East"),
           avg_customer_rating |-> Rat(48, 10), avg_weekly_earnings |-> Num(15000)]}

\* the sidebar's selectbox and sliders
SidebarInputs ==
    {[tenure_months |-> Num(24), city_district |-> Text(c),
      avg_customer_rating |-> Rat(48, 10), safety_score |-> Rat(s[1], 10),
      avg_weekly_earnings |-> Num(15000), avg_weekly_trips |-> Num(s[2]),
      acceptance_rate |-> Rat(95, 100), cancellation_rate |-> Rat(5, 100),
      peak_hour_percentage |-> Rat(50, 100), grab_pay_usage_rate |-> Rat(60, 100),
      earnings_stability_score |-> Num(2000)] :
        c \in Districts, s \in {<<850, 80>>, <<700, 20>>}}

(* ---------------------------------------------------------------------- *)
(* State                                                                   *)
(* ---------------------------------------------------------------------- *)

\* first: nothing served yet / the first request is not being kept
NoRequest == [via |-> "none"]

NotKept == [via |-> "off"]

Fresh ==
    /\ via = "none"
    /\ data = NoData
    /\ input_df = <<>>
    /\ input_processed = <<>>
    /\ repayment_prob = -1
    /\ response = [kind |-> "none"]

\* the process after start-up: the artifact was found and unpickled, or not
Init ==
    /\ model \in Models \cup {NoModel}
    /\ Fresh
    /\ first = NotKept

\* the same process, with one of two artifacts loaded, keeping its first request
InitHistory ==
    /\ model \in {m \in Models : \/ m.feature_names = PartnerSchema /\ m.inf_ok
                                 \/ m.feature_names = SparseSchema /\ ~m.inf_ok}
    /\ Fresh
    /\ first = NoRequest

\* the first request served and its answer, kept to compare later answers
\* with; between tells that a different request was served after it
Remember(v, d, r) ==
    IF first = NotKept THEN first
    ELSE IF first = NoRequest
    THEN [via |-> v, data |-> d, response |-> r, between |-> FALSE]
    ELSE [first EXCEPT !.between = @ \/ v # first.via \/ d # first.data]

\* a default score returned in place of the error
DefaultScore ==
    [kind |-> "score", status |-> 200, nova_score |-> 300, repayment_probability |-> 0]

\* jsonify({'error': 'Model not loaded on the server'}), 500
ModelNotLoaded ==
    [kind |-> "error", status |-> 500, error |-> "Model not loaded on the server"]

\* the handler returned before it built a frame
NotReached ==
    /\ input_df' = <<>>
    /\ input_processed' = <<>>
    /\ repayment_prob' = -1

\* steps 3 and 4 and the call of the classifier, common to both entry points;
\* repayment_prob = -1 stands for predict_proba having raised
AlignAndScore ==
    /\ input_processed' = Align(get_dummies(input_df'), FeatureNames(model))
    /\ repayment_prob' = IF Raises(model, input_processed') THEN -1
                         ELSE predict_proba(model, input_processed')

\* POST /predict
predict ==
    \E d \in ApiRequests :
        /\ via' = "api"
        /\ data' = d
        /\ model' = model
        /\ IF model = NoModel
           THEN /\ NotReached
                /\ response' = ModelNotLoaded
           ELSE IF ~(Required \subseteq DOMAIN d)
           THEN /\ input_df' = FeatureCompletion(DataFrame(d))
                /\ input_processed' = <<>>
                /\ repayment_prob' = -1
                /\ response' = [kind |-> "error", status |-> 500, error |-> "KeyError"]
           ELSE /\ input_df' = FeatureDerivation(FeatureCompletion(DataFrame(d)))
                /\ AlignAndScore
                /\ response' = IF repayment_prob' = -1
                               THEN [kind |-> "error", status |-> 500, error |-> "XGBoostError"]
                               ELSE [kind |-> "score", status |-> 200,
                                     nova_score |-> NovaScore(repayment_prob'),
                                     repayment_probability |-> Percent(repayment_prob')]
        /\ first' = Remember("api", d, response')

\* the dashboard's "Calculate Nova Score" button
calculate ==
    \E d \in SidebarInputs :
        /\ via' = "streamlit"
        /\ data' = d
        /\ model' = model
        /\ IF model = NoModel
           THEN /\ NotReached
                /\ response' = [kind |-> "error", error |-> "Model not loaded. Cannot predict."]
           ELSE /\ input_df' = FeatureDerivation(DataFrame(d))
                /\ AlignAndScore
                /\ response' = IF repayment_prob' = -1
                               THEN [kind |-> "error", error |-> "XGBoostError"]
                               ELSE [kind |-> "score",
                                     nova_score |-> NovaScore(repayment_prob'),
                                     repayment_probability |-> Percent(repayment_prob')]
        /\ first' = Remember("streamlit", d, response')

Next == predict \/ calculate

Spec == Init /\ [][Next]_vars

SpecHistory == InitHistory /\ [][Next]_vars

(* ---------------------------------------------------------------------- *)
(* Properties                                                              *)
(* ---------------------------------------------------------------------- *)

Loaded == model # NoModel

\* a request was served and got as far as the classifier
Aligned == via # "none" /\ Loaded /\ Required \subseteq DOMAIN data

Scored == response.kind = "score"

District == data.city_district.cat

\* the frame handed to steps 3 and 4
Encoded == get_dummies(input_df)

\* C1: the frame handed to the classifier has one column per training column,
\* in the training order; a training column the encoded frame lacks is 0, any
\* other carries the encoded frame's value, and no other column survives.
C1_SchemaConformance ==
    Aligned =>
        /\ Len(input_processed) = Len(FeatureNames(model))
        /\ \A i \in 1..Len(input_processed) :
            /\ input_processed[i].name = FeatureNames(model)[i]
            /\ input_processed[i].value =
                   IF input_processed[i].name \in Columns(Encoded)
                   THEN Get(Encoded, input_processed[i].name)
                   ELSE Num(0)

\* a request with a key outside the schema, a schema with a column no request has
C1_Witness ==
    /\ Aligned
    /\ FeatureNames(model) = SparseSchema
    /\ "partner_id" \in Columns(Encoded)
    /\ input_processed[2] = [name |-> "loan_history", value |-> Num(0)]
    /\ input_processed[4] = [name |-> "tenure_months", value |-> Num(24)]

\* C2 as stated: the score is 300 plus the probability times 550 rounded to
\* the nearest integer.
C2_RoundedScore ==
    Scored => response.nova_score = 300 + RoundHalfEven(repayment_prob * 550, PDen)

\* C2 amended: the score is 300 plus the probability times 550 with its
\* fraction cut off.
C2_TruncatedScore ==
    Scored => response.nova_score = 300 + ((repayment_prob * 550) \div PDen)

\* a score whose fraction is a half or more: rounding would give one more
C2_Witness ==
    /\ Scored
    /\ 2 * ((repayment_prob * 550) % PDen) > PDen
    /\ response.nova_score + 1 = 300 + RoundHalfEven(repayment_prob * 550, PDen)

\* C3: a behavioural feature the caller supplied keeps the supplied value in
\* the completed frame of /predict.
C3_NeverOverwrites ==
    (via = "api" /\ Aligned) =>
        \A a \in Behavioral \cap DOMAIN data : Get(input_df, a) = data[a]

\* C4: a request with zero weekly trips ends in a DivisionByZero error, with
\* no feature vector and no score.
C4_ZeroTripsRejected ==
    (Aligned /\ data.avg_weekly_trips = Num(0)) =>
        /\ response.kind = "error"
        /\ response.error = "DivisionByZero"
        /\ input_processed = <<>>

\* C5: a request whose district is none of the four known ones ends in an
\* UnknownCategory error, never in a feature vector with all-zero indicators.
C5_UnknownCategoryRejected ==
    (Aligned /\ District \notin Districts) =>
        /\ response.kind = "error"
        /\ response.error = "UnknownCategory"
        /\ input_processed = <<>>

\* C6: without a model every request is answered with an error that carries
\* neither a score nor a probability, and the model stays unloaded.
C6_ModelUnavailable ==
    /\ []((~Loaded /\ via # "none") =>
            /\ response.kind = "error"
            /\ "nova_score" \notin DOMAIN response
            /\ "repayment_probability" \notin DOMAIN response
            /\ input_processed = <<>>)
    /\ [][~Loaded => model' = model]_vars

C6_Witness == ~Loaded /\ via = "api" /\ response.kind = "error" /\ response.status = 500

\* C7: a returned score lies in 300..850 and the returned probability in
\* 0 % .. 100 %.
C7_ScoreRange ==
    Scored =>
        /\ 300 <= response.nova_score /\ response.nova_score <= 850
        /\ 0 <= response.repayment_probability /\ response.repayment_probability <= 10000

\* the classifier returned probability 1
C7_Witness == Scored /\ repayment_prob = PDen /\ response.nova_score = 850

\* C8: /predict builds from a minimal request the feature vector it builds
\* from the same request with the six documented defaults spelled out.
C8_DefaultFilling ==
    (via = "api" /\ Aligned /\ DOMAIN data = Required) =>
        input_processed =
            Align(get_dummies(FeatureDerivation(FeatureCompletion(DataFrame(data @@ Defaults)))),
                  FeatureNames(model))

\* a minimal request whose vector carries the default safety score
C8_Witness ==
    /\ via = "api" /\ Aligned /\ DOMAIN data = Required
    /\ "safety_score" \in Columns(input_processed)
    /\ Get(input_processed, "safety_score") = Num(85)

\* C9: a request equal to the first request served is answered as the first
\* was, whatever was served in between, and no request changes the model.
C9_RequestIndependence ==
    /\ []((first # NoRequest /\ via = first.via /\ data = first.data) =>
            response = first.response)
    /\ [][model' = model]_vars

\* the first request, scored, served again after a different one
C9_Witness ==
    /\ first # NoRequest /\ first.between
    /\ via = first.via /\ data = first.data
    /\ Scored

\* C10: with the trained schema, a North, South or West request has its own
\* indicator 1 and the other two 0, an East request has all three 0.
C10_DistrictsDistinguished ==
    (Aligned /\ FeatureNames(model) = TrainedSchema /\ District \in Districts) =>
        \A c \in {"North", "South", "West"} :
            Get(input_processed, DummyName(c)) = IF c = District THEN Num(1) ELSE Num(0)

====
